---- MODULE Spec2Model ----
(***************************************************************************)
(* ShiftHero: the weekly roster solver (solver.py), its value types        *)
(* (models.py) and the session handlers of the Streamlit front end         *)
(* (app.py).  Text values are TLA+ strings; a list is a sequence; a       *)
(* DataFrame is the sequence of its rows.                                  *)
(***************************************************************************)
EXTENDS Integers, Sequences, FiniteSets, TLC

VARIABLES
    staff_data,               \* st.session_state.staff_data: rows [name, role, max_hours]
    role_rules,               \* st.session_state.role_rules: rows [role, min_count]
    unavailable_constraints,  \* st.session_state.unavailable_constraints: [name, day, block]
    demand_data,              \* st.session_state.demand_data: rows [Day, Morning, Lunch, Dinner]
    txt,                      \* the text area of the Paste CSV tab
    event,                    \* the widget that triggered the last script run
    message,                  \* what the last script run reported (st.success / st.error)
    engine,                   \* what solver.Solve left behind: status, solution, objective
    result,                   \* st.session_state.result: None or a ScheduleOutput
    view                      \* the results section rendered from result

vars == <<staff_data, role_rules, unavailable_constraints, demand_data,
          txt, event, message, engine, result, view>>

None == [none |-> TRUE]

-----------------------------------------------------------------------------
(* models.py: the enumerations *)

blocks_list == <<"Morning", "Lunch", "Dinner">>

days_list == <<"Mon", "Tue", "Wed", "Thu", "Fri", "Sat", "Sun">>

Range(s) == {s[i] : i \in DOMAIN s}

-----------------------------------------------------------------------------
(* solver.py: weights and constants of solve_schedule *)

\* the coverage weight with its sign slipped
WEIGHT_UNASSIGNED_negated == 0 - 1000

WEIGHT_UNASSIGNED == 1000

WEIGHT_ROLE_MISSING == 2000

WEIGHT_CLOPEN == 500

WEIGHT_OVERTIME == 50

BLOCK_HOURS == 4

OVERTIME_MAX == 100

-----------------------------------------------------------------------------
(* Sequence helpers: Python's list comprehensions, sum and str.join *)

\* a Python list built by a comprehension: the function as an explicit tuple
List(f) == <<>> \o f

RECURSIVE SelectIdx(_, _, _)
\* [s[i] for i in order if Keep(i)], as a sequence (Keep given as a set of indices)
SelectIdx(s, keep, i) ==
    IF i > Len(s) THEN <<>>
    ELSE (IF i \in keep THEN <<s[i]>> ELSE <<>>) \o SelectIdx(s, keep, i + 1)

RECURSIVE SumTo(_, _)
\* s[1] + ... + s[n]
SumTo(s, n) == IF n = 0 THEN 0 ELSE s[n] + SumTo(s, n - 1)

\* sum(s)
SumSeq(s) == SumTo(s, Len(s))

RECURSIVE Flatten(_)
\* the concatenation of a sequence of sequences
Flatten(ss) == IF ss = <<>> THEN <<>> ELSE Head(ss) \o Flatten(Tail(ss))

RECURSIVE Join(_, _)
\* sep.join(parts)
Join(sep, parts) ==
    IF parts = <<>> THEN ""
    ELSE IF Len(parts) = 1 THEN parts[1]
    ELSE parts[1] \o sep \o Join(sep, Tail(parts))

-----------------------------------------------------------------------------
(* solver.py, solve_schedule: building the CP model *)

\* the key of a shift variable in the dict shifts
ShiftKey(emp, d, b) == <<emp.id, d, b>>

\* slot_key = f"{d}-{b}"
slot_key(d, b) == d \o "-" \o b

\* 2. Variables: one BoolVar per employee, day and block, in the order the
\* dict shifts receives them
shifts(employees) ==
    Flatten(List([i \in DOMAIN employees |->
        Flatten(List([di \in DOMAIN days_list |->
            List([bi \in DOMAIN blocks_list |->
                ShiftKey(employees[i], days_list[di], blocks_list[bi])])]))]))

\* 3. Hard constraints: model.Add(shifts[(emp.id, d, b)] == 0)
AvailabilityConstraints(employees) ==
    {k \in Range(shifts(employees)) :
        \E i \in DOMAIN employees :
            /\ k[1] = employees[i].id
            /\ slot_key(k[2], k[3]) \in Range(employees[i].unavailable_slots)}

\* An IntVar v in lo..hi with the constraint coef * sum(terms) + v >= rhs,
\* contributing v * weight to the objective.
IntPenalty(terms, coef, rhs, lo, hi, weight) ==
    [kind |-> "int", terms |-> terms, coef |-> coef, rhs |-> rhs,
     lo |-> lo, hi |-> hi, weight |-> weight]

\* coverage as a hard constraint: no shortage is allowed
CoveragePenalty_hard(employees, req) ==
    IntPenalty(List([i \in DOMAIN employees |->
                        ShiftKey(employees[i], req.day, req.block)]),
               1, req.required_staff, 0, 0, WEIGHT_UNASSIGNED)

\* A. Coverage: shortage in 0..needed, working_staff + shortage >= needed
CoveragePenalty(employees, req) ==
    IntPenalty(List([i \in DOMAIN employees |->
                        ShiftKey(employees[i], req.day, req.block)]),
               1, req.required_staff, 0, req.required_staff, WEIGHT_UNASSIGNED)

CoveragePenalties(employees, demands) ==
    List([j \in DOMAIN demands |-> CoveragePenalty(employees, demands[j])])

\* eligible_emps = [e for e in employees if e.role == target_role]
eligible_emps(employees, target_role) ==
    SelectIdx(employees, {i \in DOMAIN employees : employees[i].role = target_role}, 1)

\* the role rule without the test "if eligible_emps"
RolePenaltiesOf_unguarded(employees, rc) ==
    LET eligible == eligible_emps(employees, rc.role)
    IN  Flatten([di \in DOMAIN days_list |->
            [bi \in DOMAIN blocks_list |->
                IntPenalty(List([i \in DOMAIN eligible |->
                               ShiftKey(eligible[i], days_list[di], blocks_list[bi])]),
                           1, rc.min_count, 0, rc.min_count, WEIGHT_ROLE_MISSING)]])

\* B. one role rule: nothing when no employee holds the role, else per slot
\* role_shortage in 0..min_needed, role_force + role_shortage >= min_needed
RolePenaltiesOf(employees, rc) ==
    LET eligible == eligible_emps(employees, rc.role)
    IN  IF eligible # <<>>
        THEN Flatten([di \in DOMAIN days_list |->
                [bi \in DOMAIN blocks_list |->
                    IntPenalty(List([i \in DOMAIN eligible |->
                                   ShiftKey(eligible[i], days_list[di], blocks_list[bi])]),
                               1, rc.min_count, 0, rc.min_count, WEIGHT_ROLE_MISSING)]])
        ELSE <<>>

RolePenalties(employees, role_constraints) ==
    Flatten([r \in DOMAIN role_constraints |->
                RolePenaltiesOf(employees, role_constraints[r])])

\* the day pairs wrapping round from Sunday to Monday
ClopenPenaltiesOf_wrapping(emp) ==
    List([i \in 1..Len(days_list) |->
        [kind |-> "bool",
         dinner |-> <<emp.id, days_list[i], "Dinner">>,
         morning |-> <<emp.id, days_list[(i % Len(days_list)) + 1], "Morning">>,
         weight |-> WEIGHT_CLOPEN]])

\* C. is_clopen <=> dinner today and morning tomorrow, for the 6 day pairs
ClopenPenaltiesOf(emp) ==
    List([i \in 1..(Len(days_list) - 1) |->
        [kind |-> "bool",
         dinner |-> <<emp.id, days_list[i], "Dinner">>,
         morning |-> <<emp.id, days_list[i + 1], "Morning">>,
         weight |-> WEIGHT_CLOPEN]])

ClopenPenalties(employees) ==
    Flatten([i \in DOMAIN employees |-> ClopenPenaltiesOf(employees[i])])

\* overtime counted in blocks, not in hours
OvertimePenalty_in_blocks(emp) ==
    IntPenalty(Flatten([di \in DOMAIN days_list |->
                   [bi \in DOMAIN blocks_list |->
                       ShiftKey(emp, days_list[di], blocks_list[bi])]]),
               -1, -emp.max_hours, 0, OVERTIME_MAX, WEIGHT_OVERTIME)

\* D. overtime in 0..100, total_hours <= max_hours + overtime,
\* that is -BLOCK_HOURS * total_blocks + overtime >= -max_hours
OvertimePenalty(emp) ==
    IntPenalty(Flatten([di \in DOMAIN days_list |->
                   [bi \in DOMAIN blocks_list |->
                       ShiftKey(emp, days_list[di], blocks_list[bi])]]),
               -BLOCK_HOURS, -emp.max_hours, 0, OVERTIME_MAX, WEIGHT_OVERTIME)

OvertimePenalties(employees) ==
    List([i \in DOMAIN employees |-> OvertimePenalty(employees[i])])

\* The CpModel when model.Minimize(sum(penalty_vars)) has been called.
BuildModel(employees, demands, role_constraints) ==
    [shifts |-> shifts(employees),
     fixed_false |-> AvailabilityConstraints(employees),
     penalty_vars |-> CoveragePenalties(employees, demands)
                      \o RolePenalties(employees, role_constraints)
                      \o ClopenPenalties(employees)
                      \o OvertimePenalties(employees)]

-----------------------------------------------------------------------------
(* solver.py, solver.Solve(model): the CP-SAT engine, called with its      *)
(* default parameters (no time limit), so the search runs to completion.   *)
(* A valuation is given by the set x of shift variables that are true; the *)
(* penalty variables appear in one constraint each and in the objective    *)
(* with a positive weight, so in an optimal solution each takes the least  *)
(* value its constraint allows.                                            *)

\* sum(terms) under x
Count(terms, x) == Cardinality({i \in DOMAIN terms : terms[i] \in x})

\* the least v with p.lo <= v and p.coef * sum(terms) + v >= p.rhs
LeastValue(p, x) ==
    LET need == p.rhs - p.coef * Count(p.terms, x)
    IN  IF need > p.lo THEN need ELSE p.lo

\* the value of penalty variable p in the best valuation that extends x
PenaltyValue(p, x) ==
    IF p.kind = "int" THEN LeastValue(p, x)
    ELSE IF p.dinner \in x /\ p.morning \in x THEN 1 ELSE 0

\* every IntVar has a non-empty domain
ValidModel(m) ==
    \A j \in DOMAIN m.penalty_vars :
        m.penalty_vars[j].kind = "int" => m.penalty_vars[j].lo <= m.penalty_vars[j].hi

\* the shift variables no constraint fixes to 0
FreeShifts(m) == Range(m.shifts) \ m.fixed_false

\* the penalty variables under the best valuation that extends x
PenaltyValues(m, x) ==
    List([j \in DOMAIN m.penalty_vars |-> PenaltyValue(m.penalty_vars[j], x)])

\* the values stay within the domains of the IntVars
WithinDomains(m, values) ==
    \A j \in DOMAIN m.penalty_vars :
        m.penalty_vars[j].kind = "int" =>
            /\ m.penalty_vars[j].lo <= m.penalty_vars[j].hi
            /\ values[j] <= m.penalty_vars[j].hi

\* sum(penalty_vars)
WeightedSum(m, values) ==
    SumSeq([j \in DOMAIN m.penalty_vars |-> m.penalty_vars[j].weight * values[j]])

\* x can be extended to a valuation that satisfies every constraint
Feasible(m, x) ==
    /\ x \subseteq FreeShifts(m)
    /\ WithinDomains(m, PenaltyValues(m, x))

\* the objective under the best valuation that extends x
Objective(m, x) == WeightedSum(m, PenaltyValues(m, x))

\* the valuations left once the variables fixed to 0 are propagated
Candidates(m) == SUBSET FreeShifts(m)

\* the search: each candidate with its feasibility and its objective
Evaluate(m, x) ==
    LET values == PenaltyValues(m, x)
    IN  [solution |-> x, feasible |-> WithinDomains(m, values),
         objective |-> WeightedSum(m, values)]

FeasibleSolutions(m) ==
    {e \in {Evaluate(m, x) : x \in Candidates(m)} : e.feasible}

SetMin(S) == CHOOSE v \in S : \A w \in S : v <= w

\* the feasible solutions of least objective
OptimalSolutions(m) ==
    LET F == FeasibleSolutions(m)
        best == SetMin({e.objective : e \in F})
    IN  {e \in F : e.objective = best}

\* the outcomes of status = solver.Solve(model); an IntVar with an empty domain
\* makes the model invalid or infeasible
Solve(m) ==
    IF ~ValidModel(m)
    THEN {[status |-> s, solution |-> {}, objective |-> 0] :
              s \in {"MODEL_INVALID", "INFEASIBLE"}}
    ELSE LET best == OptimalSolutions(m)
         IN  IF best = {}
             THEN {[status |-> "INFEASIBLE", solution |-> {}, objective |-> 0]}
             ELSE {[status |-> "OPTIMAL", solution |-> e.solution,
                    objective |-> e.objective] : e \in best}

-----------------------------------------------------------------------------
(* solver.py, solve_schedule: 6. Parse Results *)

\* s[:n]
Prefix(s, n) == SubSeq(s, 1, IF Len(s) < n THEN Len(s) ELSE n)

\* emp_hours_solved, in roster order
emp_hours_solved(employees, x) ==
    List([i \in DOMAIN employees |->
        Cardinality({k \in x : k[1] = employees[i].id}) * BLOCK_HOURS])

\* the test of the shift variable's value inverted
assigned_names_idle(employees, x, d, b) ==
    LET on == SelectIdx(employees,
                        {i \in DOMAIN employees : ShiftKey(employees[i], d, b) \notin x}, 1)
    IN  List([i \in DOMAIN on |-> on[i].name])

\* the names of the employees whose shift variable of (d, b) is 1, in roster order
assigned_names(employees, x, d, b) ==
    LET on == SelectIdx(employees,
                        {i \in DOMAIN employees : ShiftKey(employees[i], d, b) \in x}, 1)
    IN  List([i \in DOMAIN on |-> on[i].name])

\* f"{name}{short_role}", the role being that of the first employee of that name
staff_display(employees, name) ==
    LET named == {i \in DOMAIN employees : employees[i].name = name}
        role == IF named = {} THEN "" ELSE employees[SetMin(named)].role
    IN  name \o (IF role # "" THEN " (" \o Prefix(role, 3) \o ")" ELSE "")

assignment(employees, x, d, b) ==
    LET names == assigned_names(employees, x, d, b)
    IN  [day |-> d, block |-> b, staff |-> names,
         staff_str |-> Join(", ", [i \in DOMAIN names |->
                                      staff_display(employees, names[i])])]

assignments(employees, x) ==
    Flatten([di \in DOMAIN days_list |->
                [bi \in DOMAIN blocks_list |->
                    assignment(employees, x, days_list[di], blocks_list[bi])]])

\* np.std(hours_values), given by its square as the fraction <<num, den>>
fairness_score(hours_values) ==
    LET n == Len(hours_values)
        total == SumSeq(hours_values)
        squares == SumSeq([i \in DOMAIN hours_values |-> hours_values[i] * hours_values[i]])
    IN  IF n = 0 THEN <<0, 1>> ELSE <<n * squares - total * total, n * n>>

RECURSIVE Unique(_, _)
\* df['day'].unique(): the days in order of first appearance
Unique(rows, seen) ==
    IF rows = <<>> THEN <<>>
    ELSE IF Head(rows).day \in seen THEN Unique(Tail(rows), seen)
    ELSE <<Head(rows).day>> \o Unique(Tail(rows), seen \cup {Head(rows).day})

\* the icons are written by name
icon(block) ==
    IF block = "Morning" THEN "[sun]" ELSE IF block = "Lunch" THEN "[burger]" ELSE "[moon]"

day_text(rows, day) ==
    LET day_data == SelectIdx(rows, {i \in DOMAIN rows : rows[i].day = day}, 1)
    IN  "[calendar] *" \o day \o "*\n"
        \o Join("", [i \in DOMAIN day_data |->
                        icon(day_data[i].block) \o " " \o day_data[i].block \o ": "
                            \o day_data[i].staff_str \o "\n"])
        \o "\n"

\* the footer after the first return is never reached
generate_whatsapp_export(rows) ==
    IF rows = <<>> THEN "No schedule generated."
    ELSE LET days == Unique(rows, {})
         IN  "*[plate] Weekly Roster Draft*\n\n"
             \o Join("", [i \in DOMAIN days |-> day_text(rows, days[i])])

\* what solve_schedule returns for the engine's outcome out
ScheduleOutput(employees, out) ==
    IF out.status \in {"OPTIMAL", "FEASIBLE"}
    THEN LET rows == assignments(employees, out.solution)
         IN  [assignments |-> rows,
              metrics |-> [fairness_std_dev |->
                               fairness_score(emp_hours_solved(employees, out.solution)),
                           total_penalty |-> out.objective],
              formatted_text |-> generate_whatsapp_export(rows)]
    ELSE [assignments |-> <<>>,
          metrics |-> [fairness_std_dev |-> <<0, 1>>, total_penalty |-> 0],
          formatted_text |-> "Unsolvable Error"]

\* the runs of solve_schedule: the engine's outcome and the value returned
solve_schedule(employees, demands, role_constraints) ==
    {[engine |-> out, result |-> ScheduleOutput(employees, out)] :
        out \in Solve(BuildModel(employees, demands, role_constraints))}

-----------------------------------------------------------------------------
(* app.py, STEP 3: the inputs of solve_schedule built from the session *)

\* my_blocks: the slot keys of the blocks recorded under the row's name
my_blocks(unavailable, name) ==
    LET mine == SelectIdx(unavailable,
                          {i \in DOMAIN unavailable : unavailable[i].name = name}, 1)
    IN  List([i \in DOMAIN mine |-> slot_key(mine[i].day, mine[i].block)])

\* one Employee per staff row; str(uuid.uuid4()) is modelled by the row's position
Employees(staff, unavailable) ==
    List([i \in DOMAIN staff |->
        [id |-> i, name |-> staff[i].name, role |-> staff[i].role,
         max_hours |-> staff[i].max_hours,
         unavailable_slots |-> my_blocks(unavailable, staff[i].name)]])

\* three ShiftRequests per demand row
Requests(demand) ==
    Flatten([i \in DOMAIN demand |->
        <<[day |-> demand[i].Day, block |-> "Morning", required_staff |-> demand[i].Morning],
          [day |-> demand[i].Day, block |-> "Lunch", required_staff |-> demand[i].Lunch],
          [day |-> demand[i].Day, block |-> "Dinner", required_staff |-> demand[i].Dinner]>>])

\* the rules with a role and a min_count > 0; the others are dropped
RoleConstraints(rules) ==
    LET kept == SelectIdx(rules, {i \in DOMAIN rules :
                                     rules[i].role # "" /\ rules[i].min_count > 0}, 1)
    IN  List([i \in DOMAIN kept |->
                 [role |-> kept[i].role, min_count |-> kept[i].min_count]])

\* Day(row['Day']) raises ValueError on a value that is no Day
DaysValid(demand) == \A i \in DOMAIN demand : demand[i].Day \in Range(days_list)

-----------------------------------------------------------------------------
(* app.py, STEP 4: the results section *)

has_role_rules(rules) == \E i \in DOMAIN rules : rules[i].min_count > 0

Render(res, rules) ==
    IF res = None THEN None
    ELSE LET score == res.metrics.total_penalty
         IN  [scorecard |-> IF score > 0 THEN "Issues Detected" ELSE "Perfect Schedule",
              detail |-> IF score <= 0 THEN ""
                         ELSE IF has_role_rules(rules) /\ score >= 2000
                         THEN "Missing Roles"
                         ELSE "Understaffing",
              approx_empty_slots |-> IF score > 0 /\ ~(has_role_rules(rules) /\ score >= 2000)
                                     THEN score \div 1000 ELSE 0,
              schedule |-> IF res.assignments # <<>> THEN "grid" ELSE "No shifts assigned."]

-----------------------------------------------------------------------------
(* app.py, STEP 3 and STEP 4: the Generate Schedule button *)

\* the runs of solve_schedule on the inputs built from the session
SessionRuns ==
    solve_schedule(Employees(staff_data, unavailable_constraints),
                   Requests(demand_data), RoleConstraints(role_rules))

\* every demand row names a Day: the schedule is solved, stored and rendered
GenerateSolves ==
    /\ DaysValid(demand_data)
    /\ \E run \in SessionRuns :
          /\ engine' = run.engine
          /\ result' = run.result
          /\ view' = Render(run.result, role_rules)
    /\ event' = "generate"
    /\ message' = ""
    /\ UNCHANGED <<staff_data, role_rules, unavailable_constraints, demand_data, txt>>

\* Day(row['Day']) raises: the script run stops, the stored result stays
GenerateRaises ==
    /\ ~DaysValid(demand_data)
    /\ event' = "generate"
    /\ message' = "ValueError"
    /\ UNCHANGED <<staff_data, role_rules, unavailable_constraints, demand_data, txt,
                   engine, result, view>>

Generate == GenerateSolves \/ GenerateRaises

-----------------------------------------------------------------------------
(* The sessions solve_schedule is run on.  All but the slots of FocusSlots *)
(* are blocked for every name, so that the engine's search space is the    *)
(* valuations of the focus slots.                                          *)

MaxStaff == 2

MaxNeed == 2

FocusSlots == {<<"Mon", "Dinner">>, <<"Tue", "Morning">>}

AllSlots == {<<d, b>> : d \in Range(days_list), b \in Range(blocks_list)}

NamePool == {"Ann", "Bob"}

RowPool ==
    <<[name |-> "Ann", role |-> "Chef", max_hours |-> 4],
      [name |-> "Ann", role |-> "Server", max_hours |-> 40],
      [name |-> "Bob", role |-> "Server", max_hours |-> 8],
      [name |-> "Bob", role |-> "Server", max_hours |-> -96],
      [name |-> "Ann", role |-> "Chef", max_hours |-> -104]>>

\* the rosters of at most MaxStaff rows of RowPool, in the pool's order
Rosters ==
    {SelectIdx(RowPool, keep, 1) :
        keep \in {k \in SUBSET DOMAIN RowPool : Cardinality(k) <= MaxStaff}}

RECURSIVE SetToSeq(_)
SetToSeq(S) ==
    IF S = {} THEN <<>>
    ELSE LET e == CHOOSE e \in S : TRUE IN <<e>> \o SetToSeq(S \ {e})

\* the Block button pressed for every slot but those left free, name by name
BlocksLeaving(free) ==
    SetToSeq({[name |-> p[1], day |-> p[2][1], block |-> p[2][2]] :
                 p \in {q \in NamePool \X AllSlots : q[2] \notin free[q[1]]}})

FreePatterns ==
    {[n \in NamePool |-> FocusSlots],
     [n \in NamePool |-> IF n = "Ann" THEN {<<"Tue", "Morning">>} ELSE FocusSlots]}

UnavailableLists == {BlocksLeaving(free) : free \in FreePatterns}

\* a demand table: dinner staff on Monday, morning staff on Tuesday, base elsewhere
DemandTable(mon_dinner, tue_morning, base) ==
    List([i \in DOMAIN days_list |->
        [Day |-> days_list[i],
         Morning |-> IF days_list[i] = "Tue" THEN tue_morning ELSE base,
         Lunch |-> base,
         Dinner |-> IF days_list[i] = "Mon" THEN mon_dinner ELSE base]])

\* the first row's Day cell edited to v
WithFirstDay(table, v) == [table EXCEPT ![1].Day = v]

DemandTables ==
    {DemandTable(a, b, 0) : a \in 0..MaxNeed, b \in 0..1}
    \cup {DemandTable(1, 1, 1), DemandTable(-1, 1, 0),
          WithFirstDay(DemandTable(1, 1, 0), "Tue"),
          WithFirstDay(DemandTable(1, 1, 0), "Monday")}

RuleLists ==
    {<<>>,
     <<[role |-> "Chef", min_count |-> 1]>>,
     <<[role |-> "Chef", min_count |-> 0]>>,
     <<[role |-> "Manager", min_count |-> 1]>>,
     <<[role |-> "Chef", min_count |-> 1], [role |-> "Manager", min_count |-> 2]>>}

InitSolve ==
    /\ staff_data \in Rosters
    /\ role_rules \in RuleLists
    /\ unavailable_constraints \in UnavailableLists
    /\ demand_data \in DemandTables
    /\ txt = ""
    /\ event = ""
    /\ message = ""
    /\ engine = None
    /\ result = None
    /\ view = None

\* one press of Generate Schedule in each session
NextSolve == event = "" /\ Generate

SpecSolve == InitSolve /\ [][NextSolve]_vars

-----------------------------------------------------------------------------
(* The worked example: one employee, free all week, max_hours = 40, one    *)
(* member of staff wanted in each of the 21 slots, no role rules.  The     *)
(* engine's search is followed valuation by valuation.                     *)

ExampleStaff == <<[name |-> "Sam", role |-> "General", max_hours |-> 40]>>

ExampleDemand ==
    List([i \in DOMAIN days_list |->
        [Day |-> days_list[i], Morning |-> 1, Lunch |-> 1, Dinner |-> 1]])

InitExample ==
    /\ staff_data = ExampleStaff
    /\ role_rules = <<>>
    /\ unavailable_constraints = <<>>
    /\ demand_data = ExampleDemand
    /\ txt = ""
    /\ event = ""
    /\ message = ""
    /\ engine = None
    /\ result = None
    /\ view = None

\* the model solve_schedule builds from the session
SessionModel ==
    BuildModel(Employees(staff_data, unavailable_constraints), Requests(demand_data),
               RoleConstraints(role_rules))

\* The search followed step by step.  It starts from the valuation with every
\* free shift variable at 1 as the incumbent, then fixes the shift variables one
\* by one in the order of creation.  A node is cut when the objective of every
\* valuation below it is above the incumbent's: the penalty variables are
\* non-negative with non-negative weights, so each is bounded below by its least
\* value over the completions of the node.

\* the shift variables not yet fixed after the first k
Undecided(m, k) == {m.shifts[i] : i \in (k + 1)..Len(m.shifts)} \ m.fixed_false

\* a lower bound of p over the valuations that agree with x on the decided variables
OptimisticValue(p, x, undecided) ==
    IF p.kind = "int" /\ p.coef >= 0 THEN LeastValue(p, x \cup undecided)
    ELSE PenaltyValue(p, x)

LowerBound(m, k, x) ==
    LET undecided == Undecided(m, k)
    IN  SumSeq([j \in DOMAIN m.penalty_vars |->
                   m.penalty_vars[j].weight
                       * OptimisticValue(m.penalty_vars[j], x, undecided)])

\* no completion of the node satisfies every constraint
DeadEnd(m, k, x) ==
    LET undecided == Undecided(m, k)
    IN  \E j \in DOMAIN m.penalty_vars :
            /\ m.penalty_vars[j].kind = "int"
            /\ OptimisticValue(m.penalty_vars[j], x, undecided) > m.penalty_vars[j].hi

Start ==
    /\ engine = None
    /\ DaysValid(demand_data)
    /\ LET m == SessionModel
       IN  /\ ValidModel(m)
           /\ Feasible(m, FreeShifts(m))
           /\ engine' = [status |-> "SEARCH", decided |-> 0, solution |-> {},
                         bound |-> LowerBound(m, 0, {}),
                         incumbent |-> Objective(m, FreeShifts(m))]
    /\ UNCHANGED <<staff_data, role_rules, unavailable_constraints, demand_data,
                   txt, event, message, result, view>>

Branch ==
    /\ engine # None
    /\ engine.status = "SEARCH"
    /\ LET m == SessionModel
           k == engine.decided + 1
       IN  /\ k <= Len(m.shifts)
           /\ \E v \in BOOLEAN :
                 LET x == IF v THEN engine.solution \cup {m.shifts[k]}
                          ELSE engine.solution
                     bound == LowerBound(m, k, x)
                 IN  /\ v => m.shifts[k] \notin m.fixed_false
                     /\ ~DeadEnd(m, k, x)
                     /\ bound <= engine.incumbent
                     /\ engine' = [engine EXCEPT !.decided = k, !.solution = x,
                                                 !.bound = bound]
    /\ UNCHANGED <<staff_data, role_rules, unavailable_constraints, demand_data,
                   txt, event, message, result, view>>

\* a complete valuation the cut has left is one the engine may return
Complete ==
    /\ engine # None
    /\ engine.status = "SEARCH"
    /\ engine.decided = Len(SessionModel.shifts)
    /\ engine' = [engine EXCEPT !.status = "OPTIMAL"]
    /\ result' = ScheduleOutput(Employees(staff_data, unavailable_constraints),
                                [status |-> "OPTIMAL", solution |-> engine.solution,
                                 objective |-> engine.bound])
    /\ view' = Render(result', role_rules)
    /\ event' = "generate"
    /\ UNCHANGED <<staff_data, role_rules, unavailable_constraints, demand_data,
                   txt, message>>

NextExample == Start \/ Branch \/ Complete

SpecExample == InitExample /\ [][NextExample]_vars

-----------------------------------------------------------------------------
(* Properties of solve_schedule, stated on the sessions of SpecSolve *)

SessionEmployees == Employees(staff_data, unavailable_constraints)

SessionRequests == Requests(demand_data)

SessionRoleConstraints == RoleConstraints(role_rules)

\* Generate Schedule has run the solver on the session
Solved == engine # None /\ result # None

ReturnedSchedule == Solved /\ engine.status \in {"OPTIMAL", "FEASIBLE"}

\* every max_hours > 0, every required_staff >= 0, every min_count > 0, and
\* exactly one demand entry for each of the 21 slots
WellFormed(employees, demands, role_constraints) ==
    /\ \A i \in DOMAIN employees : employees[i].max_hours > 0
    /\ \A j \in DOMAIN demands : demands[j].required_staff >= 0
    /\ \A r \in DOMAIN role_constraints : role_constraints[r].min_count > 0
    /\ \A slot \in AllSlots :
          Cardinality({j \in DOMAIN demands :
                          demands[j].day = slot[1] /\ demands[j].block = slot[2]}) = 1
    /\ Len(demands) = Cardinality(AllSlots)

WellFormedSession ==
    /\ DaysValid(demand_data)
    /\ WellFormed(SessionEmployees, SessionRequests, SessionRoleConstraints)

\* the row of the returned assignments for slot (d, b)
RowOf(rows, d, b) == rows[CHOOSE i \in DOMAIN rows : rows[i].day = d /\ rows[i].block = b]

\* C1: in a returned result with a non-empty assignments list, no employee is
\* in the staff list of a slot whose key "<Day>-<Block>" is in that employee's
\* unavailable_slots.
C1_AvailabilityRespected ==
    (Solved /\ result.assignments # <<>>) =>
        LET employees == SessionEmployees
            rows == result.assignments
        IN  \A i \in DOMAIN employees :
                LET unavailable == Range(employees[i].unavailable_slots)
                IN  \A j \in DOMAIN rows :
                        slot_key(rows[j].day, rows[j].block) \in unavailable
                            => /\ employees[i].name \notin Range(rows[j].staff)
                               /\ ShiftKey(employees[i], rows[j].day, rows[j].block)
                                      \notin engine.solution

\* a returned schedule that staffs a slot in which another employee is unavailable
C1_Witness ==
    /\ Solved
    /\ \E i \in DOMAIN SessionEmployees, j \in DOMAIN result.assignments :
          /\ result.assignments[j].staff # <<>>
          /\ slot_key(result.assignments[j].day, result.assignments[j].block)
                 \in Range(SessionEmployees[i].unavailable_slots)

\* C2: on well-formed input the model solve_schedule builds is satisfied by the
\* valuation with every shift variable false, and the engine status is never
\* INFEASIBLE.
C2_AlwaysFeasible ==
    WellFormedSession =>
        /\ ValidModel(SessionModel)
        /\ Feasible(SessionModel, {})
        /\ engine # None => engine.status \notin {"INFEASIBLE", "MODEL_INVALID"}

\* a well-formed session with shortage, role shortage and an employee, solved
C2_Witness ==
    /\ WellFormedSession
    /\ Solved
    /\ engine.status = "OPTIMAL"
    /\ SessionEmployees # <<>>
    /\ SessionRoleConstraints # <<>>
    /\ \E j \in DOMAIN SessionRequests : SessionRequests[j].required_staff > 0

\* C3: a status that is neither OPTIMAL nor FEASIBLE is not returned as a
\* schedule result with total_penalty 0 that the front end presents as a
\* perfect schedule.
C3_FailureReported ==
    (Solved /\ engine.status \notin {"OPTIMAL", "FEASIBLE"}) =>
        ~(result.metrics.total_penalty = 0 /\ view.scorecard = "Perfect Schedule")

\* C4: malformed input never reaches the solver: whenever a model has been
\* built and handed to the engine, the request was well-formed.
C4_MalformedRejected == engine # None => WellFormedSession

\* the penalty of the returned assignments, term by term
Max0(n) == IF n > 0 THEN n ELSE 0

CoverageShortage(rows, demands) ==
    SumSeq([j \in DOMAIN demands |->
        Max0(demands[j].required_staff
                 - Len(RowOf(rows, demands[j].day, demands[j].block).staff))])

\* the role rules held by at least one employee
ActiveRules(employees, role_constraints) ==
    SelectIdx(role_constraints,
              {r \in DOMAIN role_constraints :
                  \E i \in DOMAIN employees : employees[i].role = role_constraints[r].role}, 1)

\* the 21 slots, day by day
SlotSeq ==
    Flatten([di \in DOMAIN days_list |->
                [bi \in DOMAIN blocks_list |-> <<days_list[di], blocks_list[bi]>>]])

RoleShortage(employees, role_constraints, x) ==
    LET active == ActiveRules(employees, role_constraints)
    IN  SumSeq([r \in DOMAIN active |->
            SumSeq([s \in DOMAIN SlotSeq |->
                Max0(active[r].min_count
                     - Cardinality({i \in DOMAIN employees :
                           /\ employees[i].role = active[r].role
                           /\ <<employees[i].id, SlotSeq[s][1], SlotSeq[s][2]>> \in x}))])])

ClopenCount(employees, x) ==
    Cardinality({p \in (DOMAIN employees) \X (1..(Len(days_list) - 1)) :
                    /\ <<employees[p[1]].id, days_list[p[2]], "Dinner">> \in x
                    /\ <<employees[p[1]].id, days_list[p[2] + 1], "Morning">> \in x})

OvertimeHours(employees, x) ==
    SumSeq([i \in DOMAIN employees |->
        Max0(4 * Cardinality({k \in x : k[1] = employees[i].id}) - employees[i].max_hours)])

ClaimedPenalty(employees, demands, role_constraints, rows, x) ==
    1000 * CoverageShortage(rows, demands)
    + 2000 * RoleShortage(employees, role_constraints, x)
    + 500 * ClopenCount(employees, x)
    + 50 * OvertimeHours(employees, x)

\* C10: for every result returned with status OPTIMAL or FEASIBLE,
\* metrics.total_penalty is the penalty of the returned assignments: 1000 x
\* coverage shortage + 2000 x role shortage of the active rules + 500 x clopens
\* + 50 x overtime hours.
C10_PenaltyMatches ==
    ReturnedSchedule =>
        result.metrics.total_penalty =
            ClaimedPenalty(SessionEmployees, SessionRequests, SessionRoleConstraints,
                           result.assignments, engine.solution)

\* a returned schedule in which every one of the four terms is positive
C10_Witness ==
    /\ ReturnedSchedule
    /\ CoverageShortage(result.assignments, SessionRequests) > 0
    /\ RoleShortage(SessionEmployees, SessionRoleConstraints, engine.solution) > 0
    /\ ClopenCount(SessionEmployees, engine.solution) > 0
    /\ OvertimeHours(SessionEmployees, engine.solution) > 0

\* the least objective of the request, or None when no valuation is feasible
OptimalPenalty(employees, demands, role_constraints) ==
    LET F == FeasibleSolutions(BuildModel(employees, demands, role_constraints))
    IN  IF F = {} THEN None ELSE SetMin({e.objective : e \in F})

\* the demand entries with entry j lowered to n
Lowered(demands, j, n) == [demands EXCEPT ![j].required_staff = n]

\* C6: of two well-formed requests that differ only in one slot's
\* required_staff, the one with the larger value has an optimal total_penalty
\* at least that of the other.
C6_MonotonicPenalty ==
    (ReturnedSchedule /\ WellFormedSession) =>
        \A j \in DOMAIN SessionRequests :
            \A n \in 0..(SessionRequests[j].required_staff - 1) :
                OptimalPenalty(SessionEmployees, Lowered(SessionRequests, j, n),
                               SessionRoleConstraints)
                    <= result.metrics.total_penalty

\* a solved well-formed request whose optimum is above that of a request with
\* one slot's required_staff lowered, and one whose optimum is the same
C6_Witness ==
    /\ ReturnedSchedule
    /\ WellFormedSession
    /\ \E j \in DOMAIN SessionRequests :
          /\ SessionRequests[j].required_staff = 2
          /\ OptimalPenalty(SessionEmployees, Lowered(SessionRequests, j, 1),
                            SessionRoleConstraints) < result.metrics.total_penalty
          /\ OptimalPenalty(SessionEmployees, Lowered(SessionRequests, j, 0),
                            SessionRoleConstraints)
                 = OptimalPenalty(SessionEmployees, Lowered(SessionRequests, j, 1),
                                 SessionRoleConstraints)

\* the role rules that some employee's role matches
WithoutInert(employees, role_constraints) == ActiveRules(employees, role_constraints)

HasInertRule ==
    WithoutInert(SessionEmployees, SessionRoleConstraints) # SessionRoleConstraints

\* C7: a role rule whose role no employee holds creates no variable, constraint
\* or penalty term: the model, the optimal assignments and the optimal
\* total_penalty are those of the request without the rule.
C7_RoleInert ==
    HasInertRule =>
        LET full == SessionModel
            reduced == BuildModel(SessionEmployees, SessionRequests,
                                  WithoutInert(SessionEmployees, SessionRoleConstraints))
        IN  /\ full = reduced
            /\ engine = None => OptimalSolutions(full) = OptimalSolutions(reduced)
            /\ engine # None => engine \in Solve(reduced)

\* a solved request with a rule for a role nobody holds beside an active rule
C7_Witness ==
    /\ HasInertRule
    /\ ReturnedSchedule
    /\ WithoutInert(SessionEmployees, SessionRoleConstraints) # <<>>
    /\ result.metrics.total_penalty > 0

\* the branch and bound never cuts the valuation the engine returns: at every
\* depth the bound of its prefix is at most its objective
BoundSound ==
    (Solved /\ engine.status = "OPTIMAL") =>
        LET m == SessionModel
        IN  \A k \in 0..Len(m.shifts) :
                LowerBound(m, k, engine.solution \cap {m.shifts[i] : i \in 1..k})
                    <= engine.objective

-----------------------------------------------------------------------------
(* The worked example, stated on SpecExample *)

\* C5: one employee free in every slot with max_hours = 40, one member of
\* staff wanted in each of the 21 slots, no role rules: the valuation with all
\* 21 slots worked has penalty 5200 (44 hours of overtime x 50 + 6 clopens
\* x 500), every complete valuation of penalty at most 5200 is that valuation,
\* and the result returned assigns the employee to all 21 slots with
\* total_penalty 5200.
C5_WorkedExample ==
    engine # None =>
        /\ engine.incumbent = 5200
        /\ engine.decided = Len(SessionModel.shifts) =>
              /\ engine.solution = Range(SessionModel.shifts)
              /\ engine.bound = 5200
              /\ Objective(SessionModel, engine.solution) = 5200
        /\ result # None =>
              /\ result.metrics.total_penalty = 5200
              /\ Len(result.assignments) = 21
              /\ \A j \in DOMAIN result.assignments :
                    result.assignments[j].staff = <<"Sam">>
              /\ OvertimeHours(SessionEmployees, engine.solution) = 44
              /\ ClopenCount(SessionEmployees, engine.solution) = 6
              /\ CoverageShortage(result.assignments, SessionRequests) = 0

\* the search has come to its end and the schedule is returned
C5_Witness ==
    /\ engine # None
    /\ engine.status = "OPTIMAL"
    /\ result # None
    /\ Len(result.assignments) = 21
    /\ SessionEmployees = <<[id |-> 1, name |-> "Sam", role |-> "General",
                            max_hours |-> 40, unavailable_slots |-> <<>>]>>

-----------------------------------------------------------------------------
(* Python's str.split, str.strip and int on text *)

\* the position of the first sep in s, or 0
Find(s, sep) ==
    LET at == {i \in 1..Len(s) : SubSeq(s, i, i) = sep}
    IN  IF at = {} THEN 0 ELSE SetMin(at)

RECURSIVE split(_, _)
\* s.split(sep) for a separator of one character
split(s, sep) ==
    LET i == Find(s, sep)
    IN  IF i = 0 THEN <<s>>
        ELSE <<SubSeq(s, 1, i - 1)>> \o split(SubSeq(s, i + 1, Len(s)), sep)

Whitespace == {" ", "\t", "\r", "\n", "\f"}

\* s.strip()
strip(s) ==
    LET solid == {i \in 1..Len(s) : SubSeq(s, i, i) \notin Whitespace}
    IN  IF solid = {} THEN ""
        ELSE SubSeq(s, SetMin(solid), CHOOSE i \in solid : \A j \in solid : j <= i)

Digits == <<"0", "1", "2", "3", "4", "5", "6", "7", "8", "9">>

IsDigit(c) == c \in Range(Digits)

\* s without a leading sign
Unsigned(s) ==
    IF s # "" /\ SubSeq(s, 1, 1) \in {"+", "-"} THEN SubSeq(s, 2, Len(s)) ELSE s

\* int(s) accepts: an optional sign, then digits with single underscores between them
IsIntLiteral(s) ==
    LET u == Unsigned(s)
    IN  /\ u # ""
        /\ \A i \in 1..Len(u) :
              \/ IsDigit(SubSeq(u, i, i))
              \/ /\ SubSeq(u, i, i) = "_"
                 /\ 1 < i /\ i < Len(u)
                 /\ IsDigit(SubSeq(u, i - 1, i - 1))
                 /\ IsDigit(SubSeq(u, i + 1, i + 1))

RECURSIVE DigitsValue(_, _)
\* the number written by the digits of u, acc being the value read so far
DigitsValue(u, acc) ==
    IF u = "" THEN acc
    ELSE IF Head(u) = "_" THEN DigitsValue(Tail(u), acc)
    ELSE DigitsValue(Tail(u),
                     10 * acc + (CHOOSE d \in 0..9 : Digits[d + 1] = SubSeq(u, 1, 1)))

\* int(s) for a text int accepts
int(s) ==
    IF SubSeq(s, 1, 1) = "-" THEN 0 - DigitsValue(Unsigned(s), 0)
    ELSE DigitsValue(Unsigned(s), 0)

-----------------------------------------------------------------------------
(* app.py: the session handlers of the sidebar and of STEP 1 and STEP 2 *)

\* the values the session state is created with
DefaultStaff ==
    <<[name |-> "Alice", role |-> "Manager", max_hours |-> 40],
      [name |-> "Bob", role |-> "Chef", max_hours |-> 45],
      [name |-> "Charlie", role |-> "Server", max_hours |-> 30],
      [name |-> "David", role |-> "Server", max_hours |-> 20]>>

DefaultRoleRules ==
    <<[role |-> "Manager", min_count |-> 1], [role |-> "Chef", min_count |-> 1]>>

DefaultDemand ==
    List([i \in DOMAIN days_list |->
        [Day |-> days_list[i], Morning |-> 2, Lunch |-> 3, Dinner |-> 3]])

\* every script run renders the results section again; the widget is recorded
Rerun(widget) ==
    /\ event' = widget
    /\ view' = Render(result, role_rules')
    /\ UNCHANGED <<engine, result>>

\* Upload Config, every key present: the three values are replaced
UploadLoads(doc) ==
    /\ doc.is_json
    /\ {"staff", "role_rules", "unavailable"} \subseteq DOMAIN doc.data
    /\ staff_data' = doc.data["staff"]
    /\ role_rules' = doc.data["role_rules"]
    /\ unavailable_constraints' = doc.data["unavailable"]
    /\ message' = "Team loaded successfully!"
    /\ UNCHANGED <<demand_data, txt>>
    /\ Rerun("upload")

\* Upload Config, json.load or a data[...] raises: the assignments made before
\* the exception stay
UploadRaises(doc) ==
    /\ ~(doc.is_json /\ {"staff", "role_rules", "unavailable"} \subseteq DOMAIN doc.data)
    /\ staff_data' = IF doc.is_json /\ "staff" \in DOMAIN doc.data
                     THEN doc.data["staff"] ELSE staff_data
    /\ role_rules' = IF doc.is_json /\ {"staff", "role_rules"} \subseteq DOMAIN doc.data
                     THEN doc.data["role_rules"] ELSE role_rules
    /\ message' = "Error loading file"
    /\ UNCHANGED <<unavailable_constraints, demand_data, txt>>
    /\ Rerun("upload")

UploadConfig(doc) == UploadLoads(doc) \/ UploadRaises(doc)

\* the Role Rules data editor: the last rule deleted
EditRoleRules ==
    /\ role_rules # <<>>
    /\ role_rules' = SubSeq(role_rules, 1, Len(role_rules) - 1)
    /\ message' = ""
    /\ UNCHANGED <<staff_data, unavailable_constraints, demand_data, txt>>
    /\ Rerun("role_rules_editor")

\* the Staff List data editor: the last row deleted
EditStaff ==
    /\ staff_data # <<>>
    /\ staff_data' = SubSeq(staff_data, 1, Len(staff_data) - 1)
    /\ message' = ""
    /\ UNCHANGED <<role_rules, unavailable_constraints, demand_data, txt>>
    /\ Rerun("staff_editor")

\* staff_names: the names of the roster, or free text when the roster is empty
staff_names(staff) ==
    IF staff # <<>> THEN {staff[i].name : i \in DOMAIN staff} ELSE {"Zed"}

MaxBlocks == 1

BlockDays == {"Mon"}

BlockBlocks == {"Dinner"}

\* the Block button
Block(sel_name, sel_day, sel_block) ==
    /\ Len(unavailable_constraints) < MaxBlocks
    /\ unavailable_constraints' =
           Append(unavailable_constraints,
                  [name |-> sel_name, day |-> sel_day, block |-> sel_block])
    /\ message' = ""
    /\ UNCHANGED <<staff_data, role_rules, demand_data, txt>>
    /\ Rerun("block")

\* the Clear All Blocks button, shown when there are blocks
ClearAllBlocks ==
    /\ unavailable_constraints # <<>>
    /\ unavailable_constraints' = <<>>
    /\ message' = ""
    /\ UNCHANGED <<staff_data, role_rules, demand_data, txt>>
    /\ Rerun("clear_all_blocks")

\* text typed or pasted into the text area
Paste(t) ==
    /\ t # txt
    /\ txt' = t
    /\ message' = ""
    /\ UNCHANGED <<staff_data, role_rules, unavailable_constraints, demand_data>>
    /\ Rerun("text_area")

\* lines = [l.split(',') for l in txt.split('\n') if l.strip()]
csv_lines(t) ==
    LET raw == split(t, "\n")
        kept == SelectIdx(raw, {i \in DOMAIN raw : strip(raw[i]) # ""}, 1)
    IN  List([i \in DOMAIN kept |-> split(kept[i], ",")])

\* the lines the comprehension of parsed keeps: len(l) > 2
csv_rows(t) ==
    LET lines == csv_lines(t)
    IN  SelectIdx(lines, {i \in DOMAIN lines : Len(lines[i]) > 2}, 1)

\* int(l[2].strip()) raises ValueError for one of the rows
csv_raises(t) == \E i \in DOMAIN csv_rows(t) : ~IsIntLiteral(strip(csv_rows(t)[i][3]))

parsed(t) ==
    LET rows == csv_rows(t)
    IN  List([i \in DOMAIN rows |->
            [name |-> strip(rows[i][1]), role |-> strip(rows[i][2]),
             max_hours |-> int(strip(rows[i][3]))]])

\* Parse CSV: parsed is not empty and replaces the roster
ParseStores ==
    /\ ~csv_raises(txt)
    /\ parsed(txt) # <<>>
    /\ staff_data' = parsed(txt)
    /\ message' = ""
    /\ UNCHANGED <<role_rules, unavailable_constraints, demand_data, txt>>
    /\ Rerun("parse_csv")

\* Parse CSV: parsed is empty, nothing is stored
ParseNothing ==
    /\ ~csv_raises(txt)
    /\ parsed(txt) = <<>>
    /\ message' = ""
    /\ UNCHANGED <<staff_data, role_rules, unavailable_constraints, demand_data, txt>>
    /\ Rerun("parse_csv")

\* Parse CSV: the comprehension raises, nothing is stored
ParseRaises ==
    /\ csv_raises(txt)
    /\ message' = "Parse error"
    /\ UNCHANGED <<staff_data, role_rules, unavailable_constraints, demand_data, txt>>
    /\ Rerun("parse_csv")

ParseCSV == ParseStores \/ ParseNothing \/ ParseRaises

\* the Demand data editor: Monday morning's count set to 0
EditDemand ==
    /\ demand_data[1].Morning # 0
    /\ demand_data' = [demand_data EXCEPT ![1].Morning = 0]
    /\ message' = ""
    /\ UNCHANGED <<staff_data, role_rules, unavailable_constraints, txt>>
    /\ Rerun("demand_editor")

\* the uploaded documents: text that is no JSON, and JSON objects with any of the keys
UploadedValues ==
    [staff |-> <<[name |-> "Eve", role |-> "Chef", max_hours |-> 30]>>,
     role_rules |-> <<[role |-> "Chef", min_count |-> 1]>>,
     unavailable |-> <<[name |-> "Eve", day |-> "Sun", block |-> "Lunch"]>>]

Documents ==
    {[is_json |-> FALSE, data |-> <<>>]}
    \cup {[is_json |-> TRUE, data |-> [k \in keys |-> UploadedValues[k]]] :
              keys \in SUBSET {"staff", "role_rules", "unavailable"}}

MaxLines == 2

\* the lines pasted: well-formed (with blanks round the fields), with two
\* fields, with hours that are no integer, and blank
LinePool == {"Ann, Chef , 40", "Cy,Cook", "Dee,Host,abc", " "}

\* the texts of at most MaxLines lines
Texts ==
    UNION {{Join("\n", ls) : ls \in [1..n -> LinePool]} : n \in 0..MaxLines}

InitSession ==
    /\ staff_data = DefaultStaff
    /\ role_rules = DefaultRoleRules
    /\ unavailable_constraints = <<>>
    /\ demand_data = DefaultDemand
    /\ txt = ""
    /\ event = ""
    /\ message = ""
    /\ engine = None
    /\ result = None
    /\ view = None

NextSession ==
    \/ \E doc \in Documents : UploadConfig(doc)
    \/ EditRoleRules
    \/ EditStaff
    \/ \E n \in staff_names(staff_data), d \in BlockDays, b \in BlockBlocks : Block(n, d, b)
    \/ ClearAllBlocks
    \/ \E t \in Texts : Paste(t)
    \/ ParseCSV
    \/ EditDemand

SpecSession == InitSession /\ [][NextSession]_vars

-----------------------------------------------------------------------------
(* Properties of the imports, stated on SpecSession *)

\* C8: an upload that ends in an error leaves staff_data, role_rules and
\* unavailable_constraints with the values they had before it.
C8_FailedImportKeepsState ==
    [][(event' = "upload" /\ message' = "Error loading file") =>
           /\ staff_data' = staff_data
           /\ role_rules' = role_rules
           /\ unavailable_constraints' = unavailable_constraints]_vars

\* a line of at least 3 comma-separated fields whose third field is an integer
WellFormedLine(l) ==
    LET fields == split(l, ",")
    IN  Len(fields) >= 3 /\ IsIntLiteral(strip(fields[3]))

\* the rows of the well-formed lines of t, in order
WellFormedRows(t) ==
    LET raw == split(t, "\n")
        good == SelectIdx(raw, {i \in DOMAIN raw : WellFormedLine(raw[i])}, 1)
    IN  List([i \in DOMAIN good |->
            [name |-> strip(split(good[i], ",")[1]),
             role |-> strip(split(good[i], ",")[2]),
             max_hours |-> int(strip(split(good[i], ",")[3]))]])

\* C9: after Parse CSV on a text with at least one well-formed line, the
\* roster is exactly the well-formed lines of the text, in order: the
\* malformed lines are skipped and the import continues.
C9_MalformedLinesSkipped ==
    (event = "parse_csv" /\ WellFormedRows(txt) # <<>>) =>
        staff_data = WellFormedRows(txt)
====
